---- MODULE Spec2Model ----
(***************************************************************************)
(* A model of the tactic-matching and metric pipeline of the repository:   *)
(*   src/metrics.py  evaluate, get_tactic_match, print_metrics,            *)
(*                   calc_metrics, main                                     *)
(*   src/util.py     get_engine, convert_side, fen_to_contents,            *)
(*                   parse_piece, convert_pos_to_board, legal_move          *)
(*                                                                         *)
(* Four specifications share the module's variables:                       *)
(*   Spec      main's loop over the tactics, calc_metrics' loop over the   *)
(*             games and positions, the shared Prolog database and engine  *)
(*   SpecEnc   fen_to_contents and convert_pos_to_board on bounded boards  *)
(*   SpecEval  evaluate on bounded lists of scored moves                   *)
(*   SpecForeign  the solver's calls of the foreign predicate legal_move   *)
(*                                                                         *)
(* Floating-point metric values are kept as integers in thousandths.       *)
(***************************************************************************)
EXTENDS Integers, Sequences, FiniteSets, TLC

VARIABLES
    pc,             \* where main / calc_metrics stands
    db,             \* the shared Prolog database: asserted clauses and facts
    engine,         \* the chess engine process of get_engine
    pgn,            \* the games of the PGN file, each the positions it yields
    handle,         \* position_handle: the number of games read from it
    node,           \* calc_metrics' node: index of the game's next position
    tactic_text,    \* the tactic under evaluation
    tactics_seen,   \* main's counter
    metrics,        \* calc_metrics' accumulator
    curr_positions, \* calc_metrics' per-game counter
    metrics_list,   \* main's list of returned metrics
    csv,            \* rows written by write_metrics
    exc,            \* the exception that left main, if any
    last,           \* record of the last loop-body iteration (history)
    enc_pc,         \* SpecEnc: "fen", "facts" (encoded) or "board" (decoded)
    board,          \* SpecEnc: the position given to fen_to_contents
    facts,          \* SpecEnc: the fact list of util.fen_to_contents
    cli_facts,      \* SpecEnc: the fact list of fen_to_contents.py
    pos_list,       \* SpecEnc: the facts as given to convert_pos_to_board
    decoded,        \* SpecEnc: the board convert_pos_to_board returns
    ev_pc,          \* SpecEval: "args", "done" or "rescored"
    ev_evals,       \* SpecEval: evaluate's first list, calc_metrics' evals
    ev_top_n_moves, \* SpecEval: evaluate's second list, its top_n_moves
    dcg,            \* SpecEval: evaluate(..., dcg_fn), in thousandths
    avg,            \* SpecEval: evaluate(..., avg_fn), in thousandths
    ev_errors,      \* SpecEval: the values of `error` in evaluate's loop (history)
    ev_prev,        \* SpecEval: the call before the lists were permuted (history)
    fm_pc,          \* SpecForeign: "ready" (no goal open) or "solution" (choice point)
    fm_pos,         \* SpecForeign: the position of the open legal_move goal
    fm_context,     \* SpecForeign: the context of the last PL_retry
    fm_from,        \* SpecForeign: the binding of From, if any
    fm_to,          \* SpecForeign: the binding of To, if any
    fm_calls,       \* SpecForeign: calls of legal_move for the open goal (history)
    fm_yield,       \* SpecForeign: the solutions of the open goal so far (history)
    fm_log          \* SpecForeign: the goals that ended (history)

pipeVars == <<pc, db, engine, pgn, handle, node, tactic_text, tactics_seen, metrics,
              curr_positions, metrics_list, csv, exc, last>>

encVars == <<enc_pc, board, facts, cli_facts, pos_list, decoded>>

evalVars == <<ev_pc, ev_evals, ev_top_n_moves, dcg, avg, ev_errors, ev_prev>>

foreignVars == <<fm_pc, fm_pos, fm_context, fm_from, fm_to, fm_calls, fm_yield, fm_log>>

vars == <<pipeVars, encVars, evalVars, foreignVars>>

---------------------------------------------------------------------------
(* Bounds and program constants *)

\* --num_tactics: lines of the tactics file that main evaluates
MaxTactics == 2
\* --num-games
MaxGames == 2
\* --pos-per-game
MaxPos == 2
\* limit=3 of get_tactic_match, as calc_metrics calls it
Limit == 3
\* mate_score=2000 of evaluate
MateScore == 2000
\* SpecEval: the longest list of scored moves given to evaluate
MaxLen == 3
\* SpecForeign: the number of legal_move goals the solver opens
MaxQueries == 2

tactics_limit == MaxTactics
game_limit == MaxGames
pos_limit == MaxPos

\* The tactic texts of the tactics file and the positions of the PGN files.
\* A position stands for its fact list text, fen_to_contents(board.fen()).
Tactics == {1, 2}
Positions == {1, 2}

\* The PGN files main may be given: the games of each, and for each game
\* the positions node.board() of the nodes the positions loop visits.
PgnFiles ==
    { << <<1, 2>>, <<2, 1, 2>>, <<1>>, <<2, 2>>, <<1, 2, 1, 1>> >>,
      << <<1, 1, 1>>, <<>>, <<1>> >>,
      << <<2>> >> }

\* Optional[x]: None is the empty set, a value x is {x}
None == {}
Some(x) == {x}
\* Python truthiness of an Optional[bool] and of an Optional[List]
Truthy(b) == b = Some(TRUE)
NonEmptyList(l) == l # None /\ l # Some(<<>>)

Min(a, b) == IF a < b THEN a ELSE b
Abs(x) == IF x < 0 THEN 0 - x ELSE x
Take(s, n) == SubSeq(s, 1, Min(n, Len(s)))

---------------------------------------------------------------------------
(* Squares and moves (python-chess) *)

square_file(sq) == sq % 8
square_rank(sq) == sq \div 8
square(file, rank) == rank * 8 + file
\* chess.square_name: file letter and rank digit, kept as <<letter index, digit>>
square_name(sq) == <<square_file(sq) + 1, square_rank(sq) + 1>>
\* chess.parse_square
parse_square(name) == square(name[1] - 1, name[2] - 1)
Move(from_sq, to_sq) == [from_square |-> from_sq, to_square |-> to_sq]

\* board.legal_moves of the positions of the stream, in generation order.
\* Position 1: b-, c- and d-pawn pushes; position 2: a- to d-pawn pushes.
LegalMoves(p) ==
    IF p = 1
    THEN << Move(9, 17), Move(10, 18), Move(11, 19) >>
    ELSE << Move(48, 40), Move(49, 41), Move(50, 42), Move(51, 43) >>

---------------------------------------------------------------------------
(* The Prolog database and solver (pyswip.Prolog) *)

\* The freshly consulted database: BK_FILE's clauses are never touched, so
\* only the clauses of f/3 and the facts of legal_move/3 are kept.
FreshDb == [rules |-> <<>>, legal |-> <<>>]

\* Body of tactic t: legal_move(From, To, Pos) followed by t's own tests.
\* Tactic 1 has no further test; tactic 2 accepts only a-file moves.
Accepts(t, m) ==
    IF t = 1 THEN TRUE ELSE square_file(m.from_square) = 0

Assertz(s, clause) == Append(s, clause)

RECURSIVE RemoveFirst(_, _)
RemoveFirst(s, x) ==
    IF s = <<>> THEN <<>>
    ELSE IF Head(s) = x THEN Tail(s)
    ELSE <<Head(s)>> \o RemoveFirst(Tail(s), x)

\* prolog.retract(text): removes the first clause that matches
Retract(s, clause) == RemoveFirst(s, clause)

\* The solutions one clause of f/3 yields for f(p, From, To)
RECURSIVE ClauseSolutions(_, _, _)
ClauseSolutions(t, legal, p) ==
    IF legal = <<>> THEN <<>>
    ELSE LET f == Head(legal)
             rest == ClauseSolutions(t, Tail(legal), p)
         IN IF f.pos = p /\ Accepts(t, Move(parse_square(f.from), parse_square(f.to)))
            THEN <<[From |-> f.from, To |-> f.to]>> \o rest
            ELSE rest

\* The solutions of f(p, From, To) in database order: clause by clause
RECURSIVE Solutions(_, _, _)
Solutions(rules, legal, p) ==
    IF rules = <<>> THEN <<>>
    ELSE ClauseSolutions(Head(rules), legal, p) \o Solutions(Tail(rules), legal, p)

\* Mutant of Query: maxresult is ignored
QueryUnlimited(d, p, limit) == Solutions(d.rules, d.legal, p)

\* prolog.query(..., maxresult=limit): at most `limit` solutions, in the
\* solver's order. The solver is allowed every solution of the goal; a
\* call_with_time_limit that stops at the first one yields a prefix of these.
Query(d, p, limit) == Take(Solutions(d.rules, d.legal, p), limit)

---------------------------------------------------------------------------
(* The chess engine (chess.engine.SimpleEngine) and its scores *)

Cp(x) == [kind |-> "cp", v |-> x]
Mate(n) == [kind |-> "mate", v |-> n]

\* chess.engine.Score.score(mate_score=...)
ScoreOf(s, mate_score) ==
    IF s.kind = "cp" THEN s.v
    ELSE IF s.v > 0 THEN mate_score - s.v ELSE 0 - mate_score - s.v

\* analysis['score'].relative of the engine at depth 1 for move m in position p
EngineScore(p, m) ==
    IF p = 2 /\ m.from_square = 48 THEN Mate(1)
    ELSE Cp(((m.from_square * 3 + m.to_square) % 7) * 20 - 40)

\* get_evals: one (score, pv[0]) per suggestion, in the suggestions' order
get_evals(p, suggestions) ==
    [i \in 1..Len(suggestions) |->
        [score |-> EngineScore(p, suggestions[i]), move |-> suggestions[i]]]

\* Insert a scored move into a best-first list
RECURSIVE InsertByScore(_, _)
InsertByScore(s, e) ==
    IF s = <<>> THEN <<e>>
    ELSE IF ScoreOf(e.score, MateScore) > ScoreOf(Head(s).score, MateScore)
         THEN <<e>> \o s
         ELSE <<Head(s)>> \o InsertByScore(Tail(s), e)

RECURSIVE BestFirst(_)
BestFirst(s) ==
    IF s = <<>> THEN <<>> ELSE InsertByScore(BestFirst(Tail(s)), Head(s))

\* get_top_n_moves: the engine's multipv=n lines, best first, cut to n
get_top_n_moves(p, n) == Take(BestFirst(get_evals(p, LegalMoves(p))), n)

---------------------------------------------------------------------------
(* evaluate and its metric functions (values in thousandths) *)

\* 1000 * log2(n), rounded
Log2Milli(n) ==
    CASE n = 1 -> 0
      [] n = 2 -> 1000
      [] n = 3 -> 1585
      [] n = 4 -> 2000
      [] n = 5 -> 2322
      [] n = 6 -> 2585
      [] n = 7 -> 2807
      [] n = 8 -> 3000
      [] OTHER -> 3170

\* dcg_fn = lambda idx, error: error / math.log2(1 + (idx + 1))
\* (the quotient is taken in two steps to stay within TLC's integers)
dcg_fn(idx, error) ==
    LET l == Log2Milli(1 + (idx + 1))
        n == error * 1000
    IN (n \div l) * 1000 + ((n % l) * 1000) \div l

\* avg_fn = lambda _, error: error
avg_fn(idx, error) == error * 1000

metric_fn(fn, idx, error) ==
    IF fn = "dcg" THEN dcg_fn(idx, error) ELSE avg_fn(idx, error)

\* Mutant of PairError: mate_score is not passed on for the suggestion's
\* score, which is then taken with another mate score than the top move's
PairErrorMateScore(evaluated_move, top_move, mate_score) ==
    Abs(ScoreOf(top_move.score, mate_score) - ScoreOf(evaluated_move.score, 2 * mate_score))

\* error = abs(top_eval - eval) of one zipped pair
PairError(evaluated_move, top_move, mate_score) ==
    Abs(ScoreOf(top_move.score, mate_score) - ScoreOf(evaluated_move.score, mate_score))

\* One pass of evaluate's loop body: the new value of metric
LoopBody(metric, fn, idx, error) == metric_fn(fn, idx, error)

\* Mutant of zip: the lists are aligned at their ends
ZipFromEnd(a, b) ==
    LET n == Min(Len(a), Len(b))
    IN [k \in 1..n |-> <<a[Len(a) - n + k], b[Len(b) - n + k]>>]

\* zip(a, b): the pairs (a[k], b[k]), as many as the shorter list has
zip(a, b) == [k \in 1..Min(Len(a), Len(b)) |-> <<a[k], b[k]>>]

\* The values `error` takes in evaluate's loop, in order
ErrorTerms(evaluated_suggestions, top_moves, mate_score) ==
    LET pairs == zip(evaluated_suggestions, top_moves)
    IN [k \in 1..Len(pairs) |-> PairError(pairs[k][1], pairs[k][2], mate_score)]

\* evaluate's loop from pair idx (0-based) on, over zip(evaluated, top)
RECURSIVE EvaluateFrom(_, _, _, _, _, _)
EvaluateFrom(evaluated_suggestions, top_moves, fn, mate_score, idx, metric) ==
    LET pairs == zip(evaluated_suggestions, top_moves)
    IN IF idx >= Len(pairs) THEN metric
       ELSE EvaluateFrom(evaluated_suggestions, top_moves, fn, mate_score, idx + 1,
               LoopBody(metric, fn, idx,
                   PairError(pairs[idx + 1][1], pairs[idx + 1][2], mate_score)))

evaluate(evaluated_suggestions, top_moves, fn, mate_score) ==
    EvaluateFrom(evaluated_suggestions, top_moves, fn, mate_score, 0, 0)

---------------------------------------------------------------------------
(* get_tactic_match *)

\* The loop asserting one legal_move fact per legal move of the board
RECURSIVE AssertLegalMoves(_, _, _)
AssertLegalMoves(legal, moves, position) ==
    IF moves = <<>> THEN legal
    ELSE AssertLegalMoves(
            Assertz(legal, [from |-> square_name(Head(moves).from_square),
                            to |-> square_name(Head(moves).to_square),
                            pos |-> position]),
            Tail(moves), position)

suggestion_to_move(suggestion) ==
    Move(parse_square(suggestion.From), parse_square(suggestion.To))

\* The database when the query is launched
Asserted(d, text, position) ==
    [rules |-> Assertz(d.rules, text),
     legal |-> AssertLegalMoves(d.legal, LegalMoves(position), position)]

\* Mutant of OnTimeout: a timeout skips the position like a failed match
OnTimeoutSkipsPosition(d) == [match |-> Some(FALSE), suggestions |-> None, db |-> d]

\* The exit on PrologError
OnTimeout(d) == [match |-> None, suggestions |-> None, db |-> d]

\* The exit after the query completed with `results`
OnCompleted(d, text, results) ==
    [match |-> Some(results # <<>>),
     suggestions |-> IF results = <<>> THEN None
                     ELSE Some([i \in 1..Len(results) |-> suggestion_to_move(results[i])]),
     db |-> [rules |-> Retract(d.rules, text), legal |-> <<>>]]

\* get_tactic_match(prolog, text, board, limit): the returned pair and the
\* database it leaves; `timeout` is whether call_with_time_limit raised.
get_tactic_match(d, text, position, limit, timeout) ==
    LET d1 == Asserted(d, text, position)
    IN IF timeout THEN OnTimeout(d1)
       ELSE OnCompleted(d1, text, Query(d1, position, limit))

---------------------------------------------------------------------------
(* Boards (chess.Board), fen_to_contents and convert_pos_to_board *)

WHITE == TRUE
BLACK == FALSE

\* chess.PAWN .. chess.KING are 1 .. 6; piece type 0 stands for no piece
Piece(piece_type, color) == [piece_type |-> piece_type, color |-> color]
NoPiece == Piece(0, BLACK)

\* chess.piece_name
piece_name(piece_type) ==
    CASE piece_type = 1 -> "pawn"
      [] piece_type = 2 -> "knight"
      [] piece_type = 3 -> "bishop"
      [] piece_type = 4 -> "rook"
      [] piece_type = 5 -> "queen"
      [] OTHER -> "king"

\* parse_piece (the name is lower case already); 0 is its None
parse_piece(name) ==
    CASE name = "pawn" -> 1
      [] name = "knight" -> 2
      [] name = "bishop" -> 3
      [] name = "rook" -> 4
      [] name = "queen" -> 5
      [] name = "king" -> 6
      [] OTHER -> 0

\* convert_side on a bool and on a str
convert_side_bool(side) == IF side = WHITE THEN "white" ELSE "black"
convert_side_str(side) == IF side = "white" THEN WHITE ELSE BLACK

\* The rook squares of the four castling rights: chess.A1, H1, A8, H8
A1 == square(0, 0)
H1 == square(7, 0)
A8 == square(0, 7)
H8 == square(7, 7)
E1 == square(4, 0)
E8 == square(4, 7)

\* chess.Board(None): no piece on any square, white to move, no right
EmptyBoard ==
    [piece_at |-> [sq \in 0..63 |-> NoPiece], turn |-> WHITE, castling_rights |-> {}]

\* The back rank of chess.Board(): R N B Q K B N R
BackRank(file) ==
    CASE file \in {0, 7} -> 4
      [] file \in {1, 6} -> 2
      [] file \in {2, 5} -> 3
      [] file = 3 -> 5
      [] OTHER -> 6

\* chess.Board(): the standard opening position
StartingBoard ==
    [piece_at |-> [sq \in 0..63 |->
        CASE square_rank(sq) = 0 -> Piece(BackRank(square_file(sq)), WHITE)
          [] square_rank(sq) = 1 -> Piece(1, WHITE)
          [] square_rank(sq) = 6 -> Piece(1, BLACK)
          [] square_rank(sq) = 7 -> Piece(BackRank(square_file(sq)), BLACK)
          [] OTHER -> NoPiece],
     turn |-> WHITE,
     castling_rights |-> {A1, H1, A8, H8}]

\* Mutant of NewBoard: the decoder starts from chess.Board()
NewBoardStarting == StartingBoard

\* convert_pos_to_board's board before any predicate is applied
NewBoard == EmptyBoard

\* Board.clean_castling_rights (standard chess): a right needs the own
\* rook on its corner and the own king on e1 / e8
clean_castling_rights(b) ==
    { r \in b.castling_rights :
        LET color == (square_rank(r) = 0)
            king_sq == IF color = WHITE THEN E1 ELSE E8
        IN /\ r \in {A1, H1, A8, H8}
           /\ b.piece_at[r] = Piece(4, color)
           /\ b.piece_at[king_sq] = Piece(6, color) }

\* The own kings on the back rank of color
BackRankKings(b, color) ==
    { sq \in { square(file, IF color = WHITE THEN 0 ELSE 7) : file \in 0..7 } :
        b.piece_at[sq] = Piece(6, color) }

\* Board.has_kingside_castling_rights: a clean right whose rook stands on
\* the king's side of the back-rank king
has_kingside_castling_rights(b, color) ==
    \E k \in BackRankKings(b, color) :
        \E r \in clean_castling_rights(b) :
            square_rank(r) = square_rank(k) /\ r > k

\* Board.has_queenside_castling_rights
has_queenside_castling_rights(b, color) ==
    \E k \in BackRankKings(b, color) :
        \E r \in clean_castling_rights(b) :
            square_rank(r) = square_rank(k) /\ r < k

\* A term of the fact list: pyswip's Functor, its name and its arguments
Functor(name, args) == [name |-> name, args |-> args]

\* Mutant of ContentsFact: row and column are written in the other order
ContentsFactRowFirst(piece, sq) ==
    Functor("contents", <<convert_side_bool(piece.color), piece_name(piece.piece_type),
                          square_rank(sq) + 1, square_file(sq) + 1>>)

\* f'contents({color}, {piece_name}, {col}, {row})' for the piece on sq
ContentsFact(piece, sq) ==
    LET color == convert_side_bool(piece.color)
        row == square_rank(sq) + 1
        col == square_file(sq) + 1
    IN Functor("contents", <<color, piece_name(piece.piece_type), col, row>>)

\* The loop over chess.SQUARES from square sq on
RECURSIVE ScanSquares(_, _)
ScanSquares(b, sq) ==
    IF sq > 63 THEN <<>>
    ELSE (IF b.piece_at[sq] # NoPiece THEN <<ContentsFact(b.piece_at[sq], sq)>> ELSE <<>>)
         \o ScanSquares(b, sq + 1)

\* Mutant of CastlingPreds: a fact for every right of the FEN's castling field
CastlingPredsRaw(b) ==
    (IF H1 \in b.castling_rights THEN <<Functor("kingside_castle", <<"white">>)>> ELSE <<>>)
    \o (IF A1 \in b.castling_rights THEN <<Functor("queenside_castle", <<"white">>)>> ELSE <<>>)
    \o (IF H8 \in b.castling_rights THEN <<Functor("kingside_castle", <<"black">>)>> ELSE <<>>)
    \o (IF A8 \in b.castling_rights THEN <<Functor("queenside_castle", <<"black">>)>> ELSE <<>>)

\* The preds of one side in the castling loop
SidePreds(b, side, side_str) ==
    (IF has_kingside_castling_rights(b, side)
     THEN <<Functor("kingside_castle", <<side_str>>)>> ELSE <<>>)
    \o (IF has_queenside_castling_rights(b, side)
        THEN <<Functor("queenside_castle", <<side_str>>)>> ELSE <<>>)

\* castling_preds: white's, then black's
CastlingPreds(b) == SidePreds(b, WHITE, "white") \o SidePreds(b, BLACK, "black")

\* util.fen_to_contents: the contents facts, the turn fact, the castling facts
fen_to_contents(b) ==
    ScanSquares(b, 0)
    \o <<Functor("turn", <<convert_side_bool(b.turn)>>)>>
    \o CastlingPreds(b)

\* fen_to_contents.py's fen_to_contents: the contents facts alone
fen_to_contents_cli(b) == ScanSquares(b, 0)

\* One pass of convert_pos_to_board's loop
ApplyPredicate(b, predicate) ==
    LET predicate_name == predicate.name
        side == convert_side_str(predicate.args[1])
    IN CASE predicate_name = "contents" ->
              LET piece == Piece(parse_piece(predicate.args[2]), side)
                  sq == square(predicate.args[3] - 1, predicate.args[4] - 1)
              IN [b EXCEPT !.piece_at[sq] = piece]
         [] predicate_name = "turn" -> [b EXCEPT !.turn = side]
         [] predicate_name = "kingside_castle" ->
              [b EXCEPT !.castling_rights = @ \cup {IF side = WHITE THEN H1 ELSE H8}]
         [] predicate_name = "queenside_castle" ->
              [b EXCEPT !.castling_rights = @ \cup {IF side = WHITE THEN A1 ELSE A8}]
         [] OTHER -> b

RECURSIVE ApplyAll(_, _)
ApplyAll(b, pos) ==
    IF pos = <<>> THEN b ELSE ApplyAll(ApplyPredicate(b, Head(pos)), Tail(pos))

\* convert_pos_to_board
convert_pos_to_board(pos) == ApplyAll(NewBoard, pos)

\* The positions given to the encoder: the standard opening position and
\* the boards with any of a few pieces on a1, e1, h1, b4, e8 and h8, either
\* side to move and any castling field over a1, h1 and h8.
BoardPieces(sq) ==
    CASE sq = A1 -> {NoPiece, Piece(4, WHITE)}
      [] sq = E1 -> {NoPiece, Piece(6, WHITE)}
      [] sq = H1 -> {NoPiece, Piece(4, WHITE), Piece(4, BLACK)}
      [] sq = square(1, 3) -> {NoPiece, Piece(2, BLACK), Piece(5, WHITE)}
      [] sq = E8 -> {NoPiece, Piece(6, BLACK), Piece(3, WHITE)}
      [] sq = H8 -> {NoPiece, Piece(4, BLACK)}
      [] OTHER -> {NoPiece}

\* A board with the given pieces on a1, e1, h1, b4, e8 and h8
PlacedBoard(a1, e1, h1, b4, e8, h8, t, c) ==
    [piece_at |-> [sq \in 0..63 |->
        CASE sq = A1 -> a1
          [] sq = E1 -> e1
          [] sq = H1 -> h1
          [] sq = square(1, 3) -> b4
          [] sq = E8 -> e8
          [] sq = H8 -> h8
          [] OTHER -> NoPiece],
     turn |-> t, castling_rights |-> c]

EncBoards ==
    {StartingBoard} \cup
    { PlacedBoard(a1, e1, h1, b4, e8, h8, t, c) :
        a1 \in BoardPieces(A1), e1 \in BoardPieces(E1), h1 \in BoardPieces(H1),
        b4 \in BoardPieces(square(1, 3)), e8 \in BoardPieces(E8), h8 \in BoardPieces(H8),
        t \in BOOLEAN, c \in SUBSET {A1, H1, H8} }

\* The orders in which a fact list is given to the decoder: every rotation
\* of the list and of its reverse
Rotate(s, k) == [i \in 1..Len(s) |-> s[((i - 1 + k) % Len(s)) + 1]]
Reverse(s) == [i \in 1..Len(s) |-> s[Len(s) + 1 - i]]

\* The encoder's variables in the specifications that do not run it
EncIdle ==
    /\ enc_pc = "idle"
    /\ board = None
    /\ facts = <<>>
    /\ cli_facts = <<>>
    /\ pos_list = <<>>
    /\ decoded = None

\* evaluate's variables in the specifications that do not run it
EvalIdle ==
    /\ ev_pc = "idle"
    /\ ev_evals = <<>>
    /\ ev_top_n_moves = <<>>
    /\ dcg = 0
    /\ avg = 0
    /\ ev_errors = <<>>
    /\ ev_prev = None

\* legal_move's variables in the specifications that do not call it
ForeignIdle ==
    /\ fm_pc = "idle"
    /\ fm_pos = 0
    /\ fm_context = 0
    /\ fm_from = None
    /\ fm_to = None
    /\ fm_calls = 0
    /\ fm_yield = <<>>
    /\ fm_log = <<>>

---------------------------------------------------------------------------
(* calc_metrics and main *)

\* The variables calc_metrics and main leave alone
otherVars == <<encVars, evalVars, foreignVars>>

NewMetrics ==
    [total_games |-> 0, total_positions |-> 0, total_matches |-> 0,
     dcg |-> 0, avg |-> 0, empty_suggestions |-> 0, num_suggestions |-> 0]

NoCall ==
    [seq |-> 0, text |-> 0, pos |-> 0, timeout |-> FALSE, solutions |-> <<>>,
     match |-> None, suggestions |-> None, db_before |-> FreshDb,
     engine_failed |-> FALSE, metrics_before |-> NewMetrics,
     list_before |-> <<>>, seen_before |-> 0]

\* main before its loop, given the PGN file
PipeStart(file) ==
    /\ pc = "tactics"
    /\ db = FreshDb
    /\ engine = "running"
    /\ pgn = file
    /\ handle = 0
    /\ node = 1
    /\ tactic_text = 0
    /\ tactics_seen = 0
    /\ metrics = NewMetrics
    /\ curr_positions = 0
    /\ metrics_list = <<>>
    /\ csv = None
    /\ exc = None
    /\ last = NoCall

\* main, after calc_metrics returned `result` (None or Some(metrics)):
\* the row is kept, the counter advances, the loop goes on or breaks
BackInMain(result) ==
    /\ metrics_list' = IF result # None
                       THEN Append(metrics_list,
                                [text |-> tactic_text, m |-> CHOOSE m \in result : TRUE])
                       ELSE metrics_list
    /\ tactics_seen' = tactics_seen + 1
    /\ IF tactics_seen + 1 >= tactics_limit
       THEN pc' = "write" /\ engine' = "closed"
       ELSE pc' = "tactics" /\ engine' = engine
    /\ UNCHANGED <<csv, exc, pgn, tactic_text>>

\* An exception raised under `with get_engine(...)`: the context manager
\* closes the engine; an EngineError is swallowed and main goes on after
\* the with block, any other exception leaves main.
Raised(e) ==
    /\ engine' = "closed"
    /\ IF e = "EngineError"
       THEN pc' = "write" /\ exc' = exc
       ELSE pc' = "raised" /\ exc' = Some(e)
    /\ UNCHANGED <<metrics_list, tactics_seen, csv, pgn, tactic_text>>

\* main: the next line of the tactics file starts calc_metrics
ReadTactic(t) ==
    /\ UNCHANGED otherVars
    /\ pc = "tactics"
    /\ tactic_text' = t
    /\ metrics' = NewMetrics
    /\ curr_positions' = 0
    /\ pc' = "games"
    /\ UNCHANGED <<db, engine, pgn, handle, node, tactics_seen, metrics_list, csv, exc,
                   last>>

\* main: the tactics file has no further line
EndOfTactics ==
    /\ UNCHANGED otherVars
    /\ pc = "tactics"
    /\ pc' = "write"
    /\ engine' = "closed"
    /\ UNCHANGED <<db, pgn, handle, node, tactic_text, tactics_seen, metrics, curr_positions,
                   metrics_list, csv, exc, last>>

\* calc_metrics: games() yields the next game
NextGame ==
    /\ UNCHANGED otherVars
    /\ pc = "games"
    /\ handle < Len(pgn)
    /\ handle' = handle + 1
    /\ metrics' = [metrics EXCEPT !.total_games = @ + 1]
    /\ curr_positions' = 0
    /\ node' = 1
    /\ pc' = "positions"
    /\ UNCHANGED <<db, engine, pgn, tactic_text, tactics_seen, metrics_list,
                   csv, exc, last>>

\* calc_metrics: games() is exhausted
NoMoreGames ==
    /\ UNCHANGED otherVars
    /\ pc = "games"
    /\ handle >= Len(pgn)
    /\ pc' = "summary"
    /\ UNCHANGED <<db, engine, pgn, handle, node, tactic_text, tactics_seen, metrics,
                   curr_positions, metrics_list, csv, exc, last>>

\* Mutant of AfterGame: the games loop ends one game late
AfterGameOffByOne(m) ==
    IF game_limit # 0 /\ m.total_games > game_limit THEN "summary" ELSE "games"

\* The check that ends the games loop
AfterGame(m) == IF game_limit # 0 /\ m.total_games >= game_limit THEN "summary" ELSE "games"

\* calc_metrics: node.is_end() ends the positions of the game
EndOfGame ==
    /\ UNCHANGED otherVars
    /\ pc = "positions"
    /\ node > Len(pgn[handle])
    /\ pc' = AfterGame(metrics)
    /\ UNCHANGED <<db, engine, pgn, handle, node, tactic_text, tactics_seen, metrics,
                   curr_positions, metrics_list, csv, exc, last>>

\* Mutant of Accumulate: the else branch belongs to `if suggestions`, so
\* that only a matched position without suggestions counts as empty
AccumulateEmptyOnMatch(m, match, suggestions, p) ==
    LET m1 == [m EXCEPT !.total_positions = @ + 1]
    IN IF Truthy(match)
       THEN LET m2 == [m1 EXCEPT !.total_matches = @ + 1]
            IN IF NonEmptyList(suggestions)
               THEN LET sugg == CHOOSE x \in suggestions : TRUE
                        evals == get_evals(p, sugg)
                        top_n_moves == get_top_n_moves(p, Len(sugg))
                    IN [m2 EXCEPT !.dcg = @ + evaluate(evals, top_n_moves, "dcg", MateScore),
                                  !.avg = @ + evaluate(evals, top_n_moves, "avg", MateScore),
                                  !.num_suggestions = @ + Len(sugg)]
               ELSE [m2 EXCEPT !.empty_suggestions = @ + 1]
       ELSE m1

\* The accumulator after a position with a result
Accumulate(m, match, suggestions, p) ==
    LET m1 == [m EXCEPT !.total_positions = @ + 1]
    IN IF Truthy(match)
       THEN LET m2 == [m1 EXCEPT !.total_matches = @ + 1]
            IN IF NonEmptyList(suggestions)
               THEN LET sugg == CHOOSE x \in suggestions : TRUE
                        evals == get_evals(p, sugg)
                        top_n_moves == get_top_n_moves(p, Len(sugg))
                    IN [m2 EXCEPT !.dcg = @ + evaluate(evals, top_n_moves, "dcg", MateScore),
                                  !.avg = @ + evaluate(evals, top_n_moves, "avg", MateScore),
                                  !.num_suggestions = @ + Len(sugg)]
               ELSE m2
       ELSE [m1 EXCEPT !.empty_suggestions = @ + 1]

\* calc_metrics: one pass of the positions loop on position p
ProcessPosition(timeout, engine_fails) ==
    /\ UNCHANGED otherVars
    /\ pc = "positions"
    /\ node <= Len(pgn[handle])
    /\ LET p == pgn[handle][node]
           r == get_tactic_match(db, tactic_text, p, Limit, timeout)
           calls_engine == Truthy(r.match) /\ NonEmptyList(r.suggestions)
       IN /\ db' = r.db
          /\ last' = [seq |-> last.seq + 1, text |-> tactic_text, pos |-> p,
                      timeout |-> timeout,
                      solutions |-> IF timeout THEN <<>>
                                    ELSE LET d1 == Asserted(db, tactic_text, p)
                                         IN Solutions(d1.rules, d1.legal, p),
                      match |-> r.match, suggestions |-> r.suggestions,
                      db_before |-> db,
                      engine_failed |-> calls_engine /\ engine_fails,
                      metrics_before |-> metrics,
                      list_before |-> metrics_list, seen_before |-> tactics_seen]
          /\ IF r.match = None
             THEN /\ BackInMain(None)
                  /\ UNCHANGED <<metrics, curr_positions, handle, node>>
             ELSE IF calls_engine /\ engine_fails
             THEN /\ Raised("EngineError")
                  /\ metrics' = [metrics EXCEPT !.total_positions = @ + 1,
                                                !.total_matches = @ + 1]
                  /\ UNCHANGED <<curr_positions, handle, node>>
             ELSE /\ metrics' = Accumulate(metrics, r.match, r.suggestions, p)
                  /\ curr_positions' = curr_positions + 1
                  /\ pc' = IF pos_limit # 0 /\ curr_positions + 1 >= pos_limit
                           THEN AfterGame(metrics)
                           ELSE "positions"
                  /\ node' = node + 1
                  /\ UNCHANGED <<engine, pgn, handle, tactic_text, tactics_seen,
                                 metrics_list, csv, exc>>

\* print_metrics: its f-strings divide by total_positions and total_matches
print_metrics(m) ==
    IF m.total_positions = 0 \/ m.total_matches = 0 THEN Some("ZeroDivisionError") ELSE None

\* calc_metrics: the summary after the loops, and main's use of it
Summary ==
    /\ UNCHANGED otherVars
    /\ pc = "summary"
    /\ IF metrics.total_matches > 0
       THEN BackInMain(Some(metrics))
       ELSE IF print_metrics(metrics) # None
            THEN Raised(CHOOSE e \in print_metrics(metrics) : TRUE)
            ELSE BackInMain(None)
    /\ UNCHANGED <<db, metrics, curr_positions, last, handle, node>>

\* main: write_metrics(metrics_list, 'metrics_data.csv')
WriteMetrics ==
    /\ UNCHANGED otherVars
    /\ pc = "write"
    /\ csv' = Some(metrics_list)
    /\ pc' = "done"
    /\ UNCHANGED <<db, engine, pgn, handle, node, tactic_text, tactics_seen, metrics,
                   curr_positions, metrics_list, exc, last>>

PipeInit == \E file \in PgnFiles : PipeStart(file)

\* The pipeline's variables in the specifications that do not run it
PipeIdle == PipeStart(<<>>)

Init == PipeInit /\ EncIdle /\ EvalIdle /\ ForeignIdle

Next ==
    \/ \E t \in Tactics : ReadTactic(t)
    \/ EndOfTactics
    \/ NextGame
    \/ NoMoreGames
    \/ EndOfGame
    \/ \E timeout \in BOOLEAN, engine_fails \in BOOLEAN :
            ProcessPosition(timeout, engine_fails)
    \/ Summary
    \/ WriteMetrics

Spec == Init /\ [][Next]_vars

---------------------------------------------------------------------------
(* Claims on get_tactic_match, calc_metrics and main (specification Spec) *)

\* A step that made one call of get_tactic_match
CallStep == last'.seq = last.seq + 1

\* What get_tactic_match returns for (text, position) on a freshly
\* consulted database when the query completes
OnFreshDb(text, position) == get_tactic_match(FreshDb, text, position, Limit, FALSE)

\* C1: after every call of get_tactic_match, whatever its outcome, the
\* shared database equals the database before the call (the database does
\* not change between calls, so it is compared in every state).
C1_DatabaseRestored ==
    last.seq > 0 => db = last.db_before

\* C2: every completed call returns what the same tactic and position
\* return on a freshly consulted database: nothing asserted by an earlier
\* call is visible to a later query.
C2_NoLeakBetweenCalls ==
    (last.seq > 0 /\ ~last.timeout) =>
        /\ last.match = OnFreshDb(last.text, last.pos).match
        /\ last.suggestions = OnFreshDb(last.text, last.pos).suggestions

\* C3: a call that times out is the last call for its tactic: the step
\* that made it leaves calc_metrics with no metrics (nothing is appended to
\* metrics_list, whatever had been accumulated), counts the tactic as seen
\* and puts main at the next tactic, or after the loop when the limit is
\* reached; no exception is raised.
C3_TimeoutAbortsRule ==
    [][(CallStep /\ last'.timeout) =>
          /\ metrics_list' = metrics_list
          /\ tactics_seen' = tactics_seen + 1
          /\ pc' = IF tactics_seen + 1 >= tactics_limit THEN "write" ELSE "tactics"
          /\ exc' = None]_vars

\* C3's case: a timeout after an earlier position of the tactic had
\* matched, with a further tactic to evaluate
C3_Witness ==
    /\ last.timeout
    /\ last.metrics_before.total_matches > 0
    /\ pc = "tactics"
    /\ metrics_list = last.list_before

\* C4: when the engine fails on a position, the engine is relaunched and
\* the positions loop goes on with the rest of the stream.
C4_EngineFailureResumes ==
    [][(CallStep /\ last'.engine_failed) =>
          /\ engine' = "running"
          /\ pc' \in {"positions", "games", "summary"}]_vars

\* C5: no exception leaves the evaluation of a tactic: calc_metrics always
\* returns to main, which is never left by an exception.
C5_NoExceptionLeavesRule ==
    /\ pc # "raised"
    /\ exc = None

\* C6: get_tactic_match returns (None, None) exactly on a timeout,
\* (False, None) exactly when the query completed without a solution, and
\* (True, moves) exactly when it completed with solutions, moves being the
\* first min(limit, number of solutions) solutions as moves, in the
\* solver's order.
C6_ThreeResults ==
    last.seq > 0 =>
        LET n == Min(Limit, Len(last.solutions))
            none == last.match = None /\ last.suggestions = None
            nomatch == last.match = Some(FALSE) /\ last.suggestions = None
            matched ==
                /\ last.match = Some(TRUE)
                /\ \E moves \in last.suggestions :
                      /\ Len(moves) = n
                      /\ Len(moves) >= 1 /\ Len(moves) <= Limit
                      /\ \A i \in 1..n :
                            /\ square_name(moves[i].from_square) = last.solutions[i].From
                            /\ square_name(moves[i].to_square) = last.solutions[i].To
        IN /\ none <=> last.timeout
           /\ nomatch <=> (~last.timeout /\ last.solutions = <<>>)
           /\ matched <=> (~last.timeout /\ last.solutions # <<>>)

\* C6's case: a completed query with more solutions than the limit
C6_Witness ==
    /\ last.match = Some(TRUE)
    /\ Len(last.solutions) > Limit
    /\ \E moves \in last.suggestions : Len(moves) = Limit

\* C16: when the loops of calc_metrics have ended without a timeout,
\* calc_metrics returns the metrics, which main appends to metrics_list, if
\* and only if at least one position matched; with no match it logs the
\* accumulator at debug level and returns None, so that main appends
\* nothing and goes on.
C16_MetricsIffMatched ==
    [][pc = "summary" =>
          /\ exc' = None
          /\ pc' \in {"tactics", "write"}
          /\ tactics_seen' = tactics_seen + 1
          /\ metrics_list' = IF metrics.total_matches > 0
                             THEN Append(metrics_list, [text |-> tactic_text, m |-> metrics])
                             ELSE metrics_list]_vars

\* The change of the empty-suggestion counter in a step
EmptyCounted == metrics'.empty_suggestions - metrics.empty_suggestions

\* C17 (as stated): the empty-suggestion counter is incremented exactly for
\* the positions on which the query matched with an empty suggestion list;
\* a position on which the query did not match does not increment it.
C17_EmptyCountedOnMatch ==
    [][CallStep =>
          EmptyCounted = IF last'.match = Some(TRUE) /\ ~NonEmptyList(last'.suggestions)
                         THEN 1 ELSE 0]_vars

\* C17 (amended): the empty-suggestion counter is incremented exactly for
\* the positions on which the query completed without a match (the
\* suggestions are then None); a matched position and a timed-out position
\* do not increment it.
C17_EmptyCountedOnNoMatch ==
    [][CallStep =>
          /\ EmptyCounted = IF last'.match = Some(FALSE) THEN 1 ELSE 0
          /\ last'.match = Some(FALSE) => last'.suggestions = None]_vars

\* C17's case: the query completed without a match on the last position
\* and the counter went up, after a matched position that left it alone
C17_Witness ==
    /\ last.seq > 0
    /\ last.match = Some(FALSE)
    /\ last.metrics_before.total_matches > 0
    /\ last.metrics_before.empty_suggestions = 0
    /\ metrics.empty_suggestions = 1

\* The accumulator's relations of C18
AccumulatorInv ==
    /\ 0 <= metrics.total_matches
    /\ metrics.total_matches <= metrics.total_positions
    /\ metrics.total_matches + metrics.empty_suggestions = metrics.total_positions
    /\ ~last.engine_failed =>
          /\ metrics.total_matches <= metrics.num_suggestions
          /\ metrics.num_suggestions <= Limit * metrics.total_matches
    /\ pos_limit > 0 => metrics.total_positions <= metrics.total_games * pos_limit
    /\ game_limit > 0 => metrics.total_games <= game_limit

\* C18: in every state of calc_metrics the accumulator satisfies
\* 0 <= total_matches <= total_positions, total_matches + empty_suggestions
\* = total_positions, total_matches <= num_suggestions <= 3 * total_matches
\* (unless the engine failed before the suggestions were scored),
\* total_positions <= total_games * pos_limit and total_games <= game_limit;
\* and a position whose query timed out is not counted in total_positions.
C18_AccumulatorInvariants ==
    /\ []AccumulatorInv
    /\ [][(CallStep /\ last'.timeout) =>
            metrics'.total_positions = metrics.total_positions]_vars

\* C18's case: both limits are reached, with matched and unmatched
\* positions counted
C18_Witness ==
    /\ last.seq > 0
    /\ metrics.total_games = game_limit
    /\ metrics.total_positions = game_limit * pos_limit
    /\ metrics.total_matches >= 1
    /\ metrics.empty_suggestions >= 1
    /\ metrics.num_suggestions >= metrics.total_matches

---------------------------------------------------------------------------
(* Specification SpecEnc: encoding a position and decoding its facts *)

EncInit ==
    /\ PipeIdle
    /\ EvalIdle
    /\ ForeignIdle
    /\ enc_pc = "fen"
    /\ board \in EncBoards
    /\ facts = <<>>
    /\ cli_facts = <<>>
    /\ pos_list = <<>>
    /\ decoded = None

\* fen_to_contents(fen), by util.py and by fen_to_contents.py
Encode ==
    /\ enc_pc = "fen"
    /\ facts' = fen_to_contents(board)
    /\ cli_facts' = fen_to_contents_cli(board)
    /\ enc_pc' = "facts"
    /\ UNCHANGED <<board, pos_list, decoded, pipeVars, evalVars, foreignVars>>

\* convert_pos_to_board(pos) on the facts in one of the orders
Decode(k, reversed) ==
    /\ enc_pc = "facts"
    /\ pos_list' = Rotate(IF reversed THEN Reverse(facts) ELSE facts, k)
    /\ decoded' = convert_pos_to_board(pos_list')
    /\ enc_pc' = "board"
    /\ UNCHANGED <<board, facts, cli_facts, pipeVars, evalVars, foreignVars>>

EncNext ==
    \/ Encode
    \/ \E k \in 0..(Len(facts) - 1), reversed \in BOOLEAN : Decode(k, reversed)

SpecEnc == EncInit /\ [][EncNext]_vars

---------------------------------------------------------------------------
(* Claims on fen_to_contents and convert_pos_to_board (specification SpecEnc) *)

OccupiedSquares(b) == { sq \in 0..63 : b.piece_at[sq] # NoPiece }
IsContents(f) == f.name = "contents"
CountOf(s, f) == Cardinality({ i \in 1..Len(s) : s[i] = f })
HeldRights(b) ==
    { <<n, c>> \in {"kingside_castle", "queenside_castle"} \X BOOLEAN :
        IF n = "kingside_castle" THEN has_kingside_castling_rights(b, c)
        ELSE has_queenside_castling_rights(b, c) }

\* C7: the board decoded from the facts of a position, given in any of the
\* orders, has the position's piece (or none) on every square, its side to
\* move and its four castling rights.
C7_RoundTrip ==
    enc_pc = "board" =>
        /\ \A sq \in 0..63 : decoded.piece_at[sq] = board.piece_at[sq]
        /\ decoded.turn = board.turn
        /\ \A c \in BOOLEAN :
              /\ has_kingside_castling_rights(decoded, c) = has_kingside_castling_rights(board, c)
              /\ has_queenside_castling_rights(decoded, c) = has_queenside_castling_rights(board, c)

\* C7's case: facts given out of order, of a position with black to move,
\* pieces on the board and one white castling right of two
C7_Witness ==
    /\ enc_pc = "board"
    /\ pos_list # facts
    /\ board.turn = BLACK
    /\ board.piece_at[square(1, 3)] = Piece(2, BLACK)
    /\ has_kingside_castling_rights(board, WHITE)
    /\ ~has_queenside_castling_rights(board, WHITE)
    /\ decoded.piece_at = board.piece_at
    /\ decoded.castling_rights = {H1}

\* The contents facts of a fact list are those of the occupied squares of
\* b: as many, in increasing square order, each with the colour, the piece
\* name, the file + 1 and the rank + 1 of its square
ContentsOfOccupied(list, b) ==
    LET c == SelectSeq(list, IsContents)
        sq_of(f) == square(f.args[3] - 1, f.args[4] - 1)
    IN /\ Len(c) = Cardinality(OccupiedSquares(b))
       /\ \A i \in 1..Len(c) :
             /\ c[i].args[3] \in 1..8 /\ c[i].args[4] \in 1..8
             /\ sq_of(c[i]) \in OccupiedSquares(b)
             /\ c[i].args[1] = (IF b.piece_at[sq_of(c[i])].color THEN "white" ELSE "black")
             /\ c[i].args[2] = piece_name(b.piece_at[sq_of(c[i])].piece_type)
             /\ i < Len(c) => sq_of(c[i]) < sq_of(c[i + 1])

\* C8: both fen_to_contents emit one contents fact per occupied square, with
\* its colour, piece name and 1-indexed file and rank, in square order
\* a1 = 0 .. h8 = 63, and none for an empty square.
C8_ContentsPerOccupiedSquare ==
    enc_pc # "fen" =>
        /\ ContentsOfOccupied(facts, board)
        /\ ContentsOfOccupied(cli_facts, board)
        /\ Len(SelectSeq(cli_facts, IsContents)) = Len(cli_facts)

\* C8's case: an encoded board with pieces on b4 and h8 and empty squares
C8_Witness ==
    /\ enc_pc = "facts"
    /\ Cardinality(OccupiedSquares(board)) = 3
    /\ board.piece_at[square(1, 3)] = Piece(5, WHITE)
    /\ board.piece_at[H8] = Piece(4, BLACK)
    /\ Len(cli_facts) = 3
    /\ cli_facts[2] = Functor("contents", <<"white", "queen", 2, 4>>)
    /\ cli_facts[3] = Functor("contents", <<"black", "rook", 8, 8>>)

\* C9: the fact list has exactly one turn fact, naming the side to move,
\* one castling fact for each held right and none for a right not held, and
\* nothing else besides the contents facts; the standard opening position
\* gives 32 + 1 + 4 = 37 facts.
C9_TurnAndCastlingFacts ==
    enc_pc # "fen" =>
        /\ Cardinality({ i \in 1..Len(facts) : facts[i].name = "turn" }) = 1
        /\ CountOf(facts, Functor("turn", <<IF board.turn = WHITE THEN "white" ELSE "black">>)) = 1
        /\ \A n \in {"kingside_castle", "queenside_castle"}, c \in BOOLEAN :
              Cardinality({ i \in 1..Len(facts) :
                              facts[i].name = n /\ facts[i].args[1] = (IF c THEN "white" ELSE "black") })
                  = (IF <<n, c>> \in HeldRights(board) THEN 1 ELSE 0)
        /\ Len(facts) = Cardinality(OccupiedSquares(board)) + 1 + Cardinality(HeldRights(board))
        /\ board = StartingBoard =>
              /\ Len(SelectSeq(facts, IsContents)) = 32
              /\ Cardinality(HeldRights(board)) = 4
              /\ Len(facts) = 37

\* C9's case: the standard opening position, encoded
C9_Witness ==
    /\ enc_pc = "facts"
    /\ board = StartingBoard
    /\ Len(facts) = 37
    /\ facts[33] = Functor("turn", <<"white">>)

---------------------------------------------------------------------------
(* Specification SpecEval: evaluate on lists of scored moves *)

\* The scores of the lists: centipawns of either sign and a forced mate
EvalScores == {Cp(50), Cp(0 - 30), Mate(2)}

\* Lists of (score, move) pairs of length 0 .. MaxLen
ScoredLists ==
    UNION { [1..n -> { [score |-> sc, move |-> Move(12, 28)] : sc \in EvalScores }] :
            n \in 0..MaxLen }

EvalInit ==
    /\ PipeIdle
    /\ EncIdle
    /\ ForeignIdle
    /\ ev_pc = "args"
    /\ ev_evals \in ScoredLists
    /\ ev_top_n_moves \in ScoredLists
    /\ dcg = 0
    /\ avg = 0
    /\ ev_errors = <<>>
    /\ ev_prev = None

\* calc_metrics' two calls of evaluate on the same lists
Evaluate ==
    /\ ev_pc = "args"
    /\ dcg' = evaluate(ev_evals, ev_top_n_moves, "dcg", MateScore)
    /\ avg' = evaluate(ev_evals, ev_top_n_moves, "avg", MateScore)
    /\ ev_errors' = ErrorTerms(ev_evals, ev_top_n_moves, MateScore)
    /\ ev_pc' = "done"
    /\ UNCHANGED <<ev_evals, ev_top_n_moves, ev_prev, pipeVars, encVars, foreignVars>>

\* The list s with its entries i and j exchanged
Swap(s, i, j) ==
    [k \in 1..Len(s) |-> IF k = i THEN s[j] ELSE IF k = j THEN s[i] ELSE s[k]]

\* The two calls of evaluate again, on the suggestions' evaluations with
\* ranks i and j exchanged and the same top moves
Rescore(i, j) ==
    /\ ev_pc = "done"
    /\ i < j
    /\ j <= Len(ev_evals)
    /\ ev_prev' = Some([dcg |-> dcg, avg |-> avg, errors |-> ev_errors,
                        evals |-> ev_evals, i |-> i, j |-> j])
    /\ ev_evals' = Swap(ev_evals, i, j)
    /\ dcg' = evaluate(Swap(ev_evals, i, j), ev_top_n_moves, "dcg", MateScore)
    /\ avg' = evaluate(Swap(ev_evals, i, j), ev_top_n_moves, "avg", MateScore)
    /\ ev_errors' = ErrorTerms(Swap(ev_evals, i, j), ev_top_n_moves, MateScore)
    /\ ev_pc' = "rescored"
    /\ UNCHANGED <<ev_top_n_moves, pipeVars, encVars, foreignVars>>

EvalNext ==
    \/ Evaluate
    \/ \E i \in 1..MaxLen, j \in 1..MaxLen : Rescore(i, j)

SpecEval == EvalInit /\ [][EvalNext]_vars

---------------------------------------------------------------------------
(* Claims on evaluate (specification SpecEval) *)

\* The number of pairs zip() forms
NumPairs == Min(Len(ev_evals), Len(ev_top_n_moves))

\* |oracle_eval[i] - suggested_eval[i]| of pair i (0-based)
ErrorOfPair(i) ==
    Abs(ScoreOf(ev_top_n_moves[i + 1].score, MateScore)
        - ScoreOf(ev_evals[i + 1].score, MateScore))

\* The sum over the pairs i .. NumPairs - 1 of error / log2(1 + (i + 1))
RECURSIVE DiscountedSumFrom(_)
DiscountedSumFrom(i) ==
    IF i >= NumPairs THEN 0 ELSE dcg_fn(i, ErrorOfPair(i)) + DiscountedSumFrom(i + 1)

\* C10: evaluate with dcg_fn returns the sum over all compared pairs of
\* error / log2(1 + (i + 1)): every pair contributes.
C10_DcgSumsAllPairs ==
    ev_pc \in {"done", "rescored"} => dcg = DiscountedSumFrom(0)

\* Evaluate or Rescore has run
Scored == ev_pc \in {"done", "rescored"}

\* The sum of the per-pair absolute errors over all compared pairs
RECURSIVE ErrorSumFrom(_)
ErrorSumFrom(i) ==
    IF i >= NumPairs THEN 0 ELSE ErrorOfPair(i) + ErrorSumFrom(i + 1)

\* C11: with at least one oracle move, evaluate with avg_fn returns the sum
\* of the per-pair absolute errors over all compared pairs divided by the
\* number of oracle moves (equal up to the rounding of the thousandths).
C11_AvgIsMeanOverOracle ==
    (Scored /\ Len(ev_top_n_moves) >= 1) =>
        Abs(avg * Len(ev_top_n_moves) - 1000 * ErrorSumFrom(0)) < Len(ev_top_n_moves)

\* C12: a non-empty list scored against itself gives rankDiscounted = 0
\* and average = 0.
C12_SelfComparisonIsZero ==
    (Scored /\ ev_evals # <<>> /\ ev_evals = ev_top_n_moves) =>
        /\ dcg = 0
        /\ avg = 0

\* C12's case: a list of three entries with different scores, the last a
\* forced mate, has been scored against itself
C12_Witness ==
    /\ ev_pc = "done"
    /\ ev_evals = ev_top_n_moves
    /\ Len(ev_evals) = 3
    /\ ev_evals[1].score # ev_evals[2].score
    /\ ev_evals[3].score = Mate(2)
    /\ ev_errors = <<0, 0, 0>>

\* C13: for a fixed oracle list, exchanging two suggested-move evaluations
\* at different compared ranks whose per-pair errors differ changes the
\* rankDiscounted result and leaves the average result unchanged. The
\* exchanges taken are those that exchange the two per-pair errors, so that
\* only the order of the errors changes.
C13_SwapChangesDcgNotAvg ==
    ev_pc = "rescored" =>
        \A prev \in ev_prev :
            (/\ prev.j <= NumPairs
             /\ prev.errors[prev.i] # prev.errors[prev.j]
             /\ ev_errors = Swap(prev.errors, prev.i, prev.j)) =>
                /\ dcg # prev.dcg
                /\ avg = prev.avg

\* C14: evaluate pairs the lists positionally: its error terms are those
\* of the pairs (suggested[i], oracle[i]) for i in 0 .. min(len) - 1, in
\* order and no others, and the entries of either list beyond that index
\* do not change the results.
C14_PositionalPairing ==
    Scored =>
        /\ Len(ev_errors) = NumPairs
        /\ \A k \in 1..NumPairs : ev_errors[k] = ErrorOfPair(k - 1)
        /\ dcg = evaluate(Take(ev_evals, NumPairs), Take(ev_top_n_moves, NumPairs),
                          "dcg", MateScore)
        /\ avg = evaluate(Take(ev_evals, NumPairs), Take(ev_top_n_moves, NumPairs),
                          "avg", MateScore)

\* C14's case: lists of different lengths whose entries differ beyond the
\* compared pairs, in either direction
C14_Witness ==
    /\ ev_pc = "done"
    /\ Len(ev_evals) = 3
    /\ Len(ev_top_n_moves) = 2
    /\ ev_errors = <<80, 1948>>
    /\ ev_evals[3].score = Mate(2)

\* C15: scoring a non-empty suggested list against an oracle list with no
\* move is an error: evaluate raises and returns no metric value.
C15_EmptyOracleRaises ==
    (ev_pc # "args" /\ ev_evals # <<>> /\ ev_top_n_moves = <<>>) => ev_pc = "raised"

---------------------------------------------------------------------------
(* Specification SpecForeign: the foreign predicate legal_move *)

\* pyswip.core.PL_foreign_control(handle)
PL_FIRST_CALL == "PL_FIRST_CALL"
PL_REDO == "PL_REDO"
PL_PRUNED == "PL_PRUNED"

\* The return values: False, and PL_retry(n), success that leaves a choice
\* point with context n
PL_fail == None
PL_retry(n) == Some(n)

\* The positions legal_move is called on: 0 has no legal move
ForeignPositions == {0} \cup Positions

\* list(convert_pos_to_board(pos).legal_moves)
BoardLegalMoves(pos) == IF pos = 0 THEN <<>> ELSE LegalMoves(pos)

\* Mutant of RedoIndex: the index of the last call is used again
RedoIndexSame(last_index) == last_index

\* index = last_index + 1
RedoIndex(last_index) == last_index + 1

\* legal_move(_from, to, pos, handle): the value returned and the terms
\* From and To are unified with (None: not unified)
legal_move(control, context, pos) ==
    LET index == IF control = PL_REDO THEN Some(RedoIndex(context))
                 ELSE IF control = PL_FIRST_CALL THEN Some(0)
                 ELSE None
        nothing == [return_value |-> PL_fail, from |-> None, to |-> None]
    IN IF control = PL_PRUNED THEN nothing
       ELSE LET legal_moves == BoardLegalMoves(pos)
                i == CHOOSE x \in index : TRUE
            IN IF 0 <= i /\ i < Len(legal_moves)
               THEN LET move == legal_moves[i + 1]
                    IN [return_value |-> PL_retry(i),
                        from |-> Some(square_name(move.from_square)),
                        to |-> Some(square_name(move.to_square))]
               ELSE nothing

ForeignInit ==
    /\ PipeIdle
    /\ EncIdle
    /\ EvalIdle
    /\ fm_pc = "ready"
    /\ fm_pos = 0
    /\ fm_context = 0
    /\ fm_from = None
    /\ fm_to = None
    /\ fm_calls = 0
    /\ fm_yield = <<>>
    /\ fm_log = <<>>

\* The solver after a call of legal_move on position pos returned r: a
\* PL_retry is a solution with a choice point holding its context, False
\* ends the goal
Returned(control, pos, r) ==
    /\ fm_pos' = pos
    /\ fm_from' = r.from
    /\ fm_to' = r.to
    /\ IF r.return_value # PL_fail
       THEN /\ fm_pc' = "solution"
            /\ fm_context' = CHOOSE n \in r.return_value : TRUE
            /\ fm_yield' = Append(IF control = PL_FIRST_CALL THEN <<>> ELSE fm_yield,
                                  [From |-> r.from, To |-> r.to])
            /\ fm_calls' = IF control = PL_FIRST_CALL THEN 1 ELSE fm_calls + 1
            /\ fm_log' = fm_log
       ELSE /\ fm_pc' = "ready"
            /\ fm_context' = 0
            /\ fm_yield' = <<>>
            /\ fm_calls' = 0
            /\ fm_log' = Append(fm_log,
                    [pos |-> pos, control |-> control,
                     calls |-> IF control = PL_FIRST_CALL THEN 1 ELSE fm_calls + 1,
                     yield |-> IF control = PL_FIRST_CALL THEN <<>> ELSE fm_yield,
                     from |-> r.from, to |-> r.to])
    /\ UNCHANGED <<pipeVars, encVars, evalVars>>

\* The solver calls the goal legal_move(From, To, pos) for the first time
FirstCall(pos) ==
    /\ fm_pc = "ready"
    /\ Len(fm_log) < MaxQueries
    /\ Returned(PL_FIRST_CALL, pos, legal_move(PL_FIRST_CALL, 0, pos))

\* The solver backtracks into the choice point: the bindings are undone
\* and legal_move is called again with the context of the last PL_retry
Redo ==
    /\ fm_pc = "solution"
    /\ Returned(PL_REDO, fm_pos, legal_move(PL_REDO, fm_context, fm_pos))

\* A cut destroys the choice point: legal_move is called to clean up
Pruned ==
    /\ fm_pc = "solution"
    /\ Returned(PL_PRUNED, fm_pos, legal_move(PL_PRUNED, fm_context, fm_pos))

ForeignNext ==
    \/ \E pos \in ForeignPositions : FirstCall(pos)
    \/ Redo
    \/ Pruned

SpecForeign == ForeignInit /\ [][ForeignNext]_vars

---------------------------------------------------------------------------
(* Claims on legal_move (specification SpecForeign) *)

\* Legal move number k (from 0) of position pos as a solution (From, To)
NthLegalMove(pos, k) ==
    [From |-> Some(square_name(BoardLegalMoves(pos)[k + 1].from_square)),
     To |-> Some(square_name(BoardLegalMoves(pos)[k + 1].to_square))]

\* The first n legal moves of pos as solutions, in enumeration order
FirstLegalMoves(pos, n) == [k \in 1..n |-> NthLegalMove(pos, k - 1)]

\* C19: on a position with n legal moves, call number k of legal_move
\* (index 0 on FIRST_CALL, the previous index + 1 on each REDO) unifies
\* (From, To) with legal move number k, so that the solutions are the legal
\* moves, each once, in enumeration order; the call with index n fails and
\* ends the enumeration; a PRUNED call fails and unifies nothing.
C19_LegalMoveEnumeration ==
    /\ fm_pc = "solution" =>
          /\ fm_calls <= Len(BoardLegalMoves(fm_pos))
          /\ fm_context = fm_calls - 1
          /\ [From |-> fm_from, To |-> fm_to] = NthLegalMove(fm_pos, fm_calls - 1)
          /\ fm_yield = FirstLegalMoves(fm_pos, fm_calls)
    /\ \A q \in 1..Len(fm_log) :
          LET g == fm_log[q]
              n == Len(BoardLegalMoves(g.pos))
          IN /\ g.from = None /\ g.to = None
             /\ g.control # PL_PRUNED =>
                   /\ g.calls = n + 1
                   /\ g.yield = FirstLegalMoves(g.pos, n)
             /\ g.control = PL_PRUNED =>
                   /\ g.calls <= n + 1
                   /\ g.yield = FirstLegalMoves(g.pos, g.calls - 1)

\* C19's case: one goal was enumerated to the end over four legal moves,
\* another was cut after its second solution
C19_Witness ==
    /\ \E q \in 1..Len(fm_log) :
          /\ fm_log[q].control = PL_REDO
          /\ Len(fm_log[q].yield) = 4
          /\ fm_log[q].calls = 5
    /\ \E q \in 1..Len(fm_log) :
          /\ fm_log[q].control = PL_PRUNED
          /\ Len(fm_log[q].yield) = 2

====
